---- MODULE Spec2Model ----
(***************************************************************************)
(* Model of the object mapper (objmap/objmap.c, objmap/objmap.h): a map    *)
(* from integer handles to object pointers with an incrementing key        *)
(* counter, an optional deallocator and bulk release.                      *)
(*                                                                         *)
(* The caller's pointer om is NULL or the address OM of the one registry;  *)
(* reg is the ObjectMap structure at that address, a record with the       *)
(* fields top, map and deallocator of the C struct.  The hash table behind *)
(* reg.map is a function from the keys present to the stored object        *)
(* pointers.  Object pointers are the numbers 1..NObj, function pointers   *)
(* the numbers 1..NFns, and NULL is 0.                                     *)
(* objmap_key_t is an unsigned type whose largest value is KeyMax.         *)
(***************************************************************************)
EXTENDS Integers, FiniteSets, TLC

VARIABLES
    om,        \* the caller's ObjectMap* (counter.c: static ObjectMap *map)
    reg,       \* the ObjectMap structure om points to
    heap,      \* per object: who owns it / how it was released
    halted,    \* TRUE once the process was terminated by a fault
    last,      \* the call that was completed last, its arguments and result
    expect,    \* history: handle -> object, for the handles the caller holds as live
    issued,    \* history: handles returned by successful pushes since new/reset
    removed,   \* history: handles popped successfully since new/reset
    installed, \* history: the function last passed to objmap_set_deallocator
    overflowed,\* history: a push returned OBJMAP_ERR_OVERFLOW since new/reset
    value      \* example/counter.c: the value field of each counter object

vars == <<om, reg, heap, halted, last, expect, issued, removed, installed,
          overflowed, value>>
\* the state of the counter example, which the calls on the map alone leave as it is
cvars == <<value>>

----------------------------------------------------------------------------
(* Bounds of the model *)

\* largest value of objmap_key_t (the type is scaled down from 32 bits)
KeyMax == 5
\* number of distinct object addresses
NObj == 2
\* number of distinct custom deallocator functions
NFns == 1
\* largest value a counter of the example is incremented to
MaxVal == 1

----------------------------------------------------------------------------
(* Constants of objmap.h *)

NULL == 0
KeyT(x) == x % (KeyMax + 1)
OBJMAP_KEY_LIMIT == KeyT(-1)
OBJMAP_NULL == KeyT(0)
OBJMAP_ERR_OVERFLOW == KeyT(OBJMAP_KEY_LIMIT - 0)
OBJMAP_ERR_INTERNAL == KeyT(OBJMAP_KEY_LIMIT - 1)
OBJMAP_MAX_INDEX == KeyT(OBJMAP_KEY_LIMIT - 2)

Keys == 0..KeyMax
Objs == 1..NObj
Fns == 1..NFns

----------------------------------------------------------------------------
(* The hash table (khash.h): a finite map from keys to values.  An         *)
(* iterator is the key of the bucket it points to; kh_end is past the end. *)

kh_end == -1
kh_init == [x \in {} |-> NULL]
kh_exist(m, k) == k \in DOMAIN m
kh_get(m, key) == IF key \in DOMAIN m THEN key ELSE kh_end
kh_value(m, k) == m[k]
kh_del(m, k) == IF kh_exist(m, k) THEN [x \in (DOMAIN m) \ {k} |-> m[x]] ELSE m
\* rc is 0 when the key is already present or the table rejects the insertion,
\* and non-zero when a new bucket was claimed for the key.
kh_put(m, key, reject) ==
    IF key \in DOMAIN m THEN [m |-> m, k |-> key, rc |-> 0]
    ELSE IF reject THEN [m |-> m, k |-> kh_end, rc |-> 0]
    ELSE [m |-> [x \in (DOMAIN m) \cup {key} |-> IF x = key THEN NULL ELSE m[x]],
          k |-> key, rc |-> 1]
kh_set_value(m, k, v) == [m EXCEPT ![k] = v]

----------------------------------------------------------------------------
(* The heap: an object is owned by the caller, stored in the map, or was   *)
(* released, by free() (by = NULL) or by a custom deallocator (by = fn).   *)

ByCaller == [st |-> "caller", by |-> NULL]
Stored == [st |-> "stored", by |-> NULL]
Released(fn) == [st |-> "released", by |-> fn]
ReleasedAgain(fn) == [st |-> "released_again", by |-> fn]

\* what the value field reads as in memory that is not allocated
Indeterminate == -1
\* the contents of the objects that hp has as released are lost
Freed(val, hp) ==
    [o \in Objs |-> IF hp[o].st \in {"released", "released_again"}
                    THEN Indeterminate ELSE val[o]]

\* The record of a call: its name, handle and pointer arguments, the value it
\* returned, the value of top when it was made, and whether it went through NULL.
Call(op, h, obj, ret) ==
    [op |-> op, h |-> h, obj |-> obj, ret |-> ret, top0 |-> reg.top, fault |-> FALSE]
Fault(op) ==
    [op |-> op, h |-> 0, obj |-> NULL, ret |-> 0, top0 |-> reg.top, fault |-> TRUE]

----------------------------------------------------------------------------
(* objmap.c.  Each function is an operator from the structure (and, where  *)
(* the code tests it, the pointer p to it) to the structure afterwards and *)
(* the value returned.                                                     *)

\* the address of the registry, and the contents of memory that holds none
OM == 1
Unallocated == [top |-> 0, map |-> kh_init, deallocator |-> NULL]

\* variant: the counter starts at the null handle
objmap_new_zero == [top |-> 0, map |-> kh_init, deallocator |-> NULL]

objmap_new == [top |-> 1, map |-> kh_init, deallocator |-> NULL]

\* if (!om) om->deallocator = deallocator;
\* A valid registry is left alone; a NULL one is written through.
objmap_set_deallocator(p, s, d) ==
    IF p = NULL THEN [s |-> s, fault |-> TRUE]
    ELSE [s |-> s, fault |-> FALSE]

\* (om->deallocator) ? om->deallocator(obj) : free(obj); releasing an object
\* that is not the map's to release (released before, or handed back to the
\* caller) is a second release of it
release(s, hp, obj) ==
    [hp EXCEPT ![obj] = IF hp[obj].st = "stored" THEN Released(s.deallocator)
                        ELSE ReleasedAgain(s.deallocator)]

RECURSIVE flush_loop(_, _, _)
flush_loop(s, hp, ks) ==
    IF ks = {} THEN [s |-> s, heap |-> hp]
    ELSE LET k == CHOOSE x \in ks : \A y \in ks : x <= y
         IN IF kh_exist(s.map, k)
            THEN flush_loop([s EXCEPT !.map = kh_del(s.map, k)],
                            release(s, hp, kh_value(s.map, k)), ks \ {k})
            ELSE flush_loop(s, hp, ks \ {k})

\* variant: the flush also rewinds the key counter
objmap_flush_rewind(p, s, hp) ==
    IF p = NULL THEN [s |-> s, heap |-> hp]
    ELSE flush_loop([s EXCEPT !.top = 1], hp, Keys)

objmap_flush(p, s, hp) ==
    IF p = NULL THEN [s |-> s, heap |-> hp]
    ELSE flush_loop(s, hp, Keys)

\* variant: the reset rewinds the key counter and does not flush
objmap_reset_noflush(p, s, hp) ==
    IF p = NULL THEN [s |-> s, heap |-> hp]
    ELSE [s |-> [s EXCEPT !.top = 1], heap |-> hp]

\* variant: the reset leaves the key counter where it is
objmap_reset_keep(p, s, hp) ==
    IF p = NULL THEN [s |-> s, heap |-> hp]
    ELSE objmap_flush(p, s, hp)

objmap_reset(p, s, hp) ==
    IF p = NULL THEN [s |-> s, heap |-> hp]
    ELSE objmap_flush(p, [s EXCEPT !.top = 1], hp)

\* variant: the table and the structure are freed without the flush
objmap_delete_noflush(p, s, hp) ==
    IF p = NULL THEN [p |-> NULL, s |-> s, heap |-> hp, fault |-> TRUE]
    ELSE [p |-> NULL, s |-> Unallocated, heap |-> hp, fault |-> FALSE]

\* om_ptr is the address of the caller's pointer p and is never NULL itself.
\* _m = MAP(om) reads om->map before om is tested.
objmap_delete(p, s, hp) ==
    IF p = NULL THEN [p |-> NULL, s |-> s, heap |-> hp, fault |-> TRUE]
    ELSE [p |-> NULL, s |-> Unallocated, heap |-> objmap_flush(p, s, hp).heap,
          fault |-> FALSE]

\* variant: key = om->top, without the increment
objmap_push_noinc(s, obj, reject) ==
    IF s.top > OBJMAP_MAX_INDEX THEN [s |-> s, ret |-> OBJMAP_ERR_OVERFLOW]
    ELSE LET key == s.top
             put == kh_put(s.map, key, reject)
         IN IF put.rc = 0
            THEN [s |-> [s EXCEPT !.map = kh_del(put.m, put.k)],
                  ret |-> OBJMAP_ERR_INTERNAL]
            ELSE [s |-> [s EXCEPT !.map = kh_set_value(put.m, put.k, obj)],
                  ret |-> key]

\* variant: the bucket is claimed but obj is not written into it
objmap_push_nostore(s, obj, reject) ==
    IF s.top > OBJMAP_MAX_INDEX THEN [s |-> s, ret |-> OBJMAP_ERR_OVERFLOW]
    ELSE LET key == s.top
             s1 == [s EXCEPT !.top = KeyT(s.top + 1)]
             put == kh_put(s1.map, key, reject)
         IN IF put.rc = 0
            THEN [s |-> [s1 EXCEPT !.map = kh_del(put.m, put.k)],
                  ret |-> OBJMAP_ERR_INTERNAL]
            ELSE [s |-> [s1 EXCEPT !.map = put.m], ret |-> key]

\* variant: the counter is incremented before the overflow test
objmap_push_latecheck(s, obj, reject) ==
    LET key == s.top
        s1 == [s EXCEPT !.top = KeyT(s.top + 1)]
        put == kh_put(s1.map, key, reject)
    IN IF key > OBJMAP_MAX_INDEX THEN [s |-> s1, ret |-> OBJMAP_ERR_OVERFLOW]
       ELSE IF put.rc = 0
       THEN [s |-> [s1 EXCEPT !.map = kh_del(put.m, put.k)],
             ret |-> OBJMAP_ERR_INTERNAL]
       ELSE [s |-> [s1 EXCEPT !.map = kh_set_value(put.m, put.k, obj)],
             ret |-> key]

\* variant: the increment is taken back when the table rejects the insertion
objmap_push_rollback(s, obj, reject) ==
    IF s.top > OBJMAP_MAX_INDEX THEN [s |-> s, ret |-> OBJMAP_ERR_OVERFLOW]
    ELSE LET key == s.top
             s1 == [s EXCEPT !.top = KeyT(s.top + 1)]
             put == kh_put(s1.map, key, reject)
         IN IF put.rc = 0
            THEN [s |-> [s EXCEPT !.map = kh_del(put.m, put.k)],
                  ret |-> OBJMAP_ERR_INTERNAL]
            ELSE [s |-> [s1 EXCEPT !.map = kh_set_value(put.m, put.k, obj)],
                  ret |-> key]

\* variant: the overflow test compares with OBJMAP_KEY_LIMIT
objmap_push_limit(s, obj, reject) ==
    IF s.top > OBJMAP_KEY_LIMIT THEN [s |-> s, ret |-> OBJMAP_ERR_OVERFLOW]
    ELSE LET key == s.top
             s1 == [s EXCEPT !.top = KeyT(s.top + 1)]
             put == kh_put(s1.map, key, reject)
         IN IF put.rc = 0
            THEN [s |-> [s1 EXCEPT !.map = kh_del(put.m, put.k)],
                  ret |-> OBJMAP_ERR_INTERNAL]
            ELSE [s |-> [s1 EXCEPT !.map = kh_set_value(put.m, put.k, obj)],
                  ret |-> key]

objmap_push(s, obj, reject) ==
    IF s.top > OBJMAP_MAX_INDEX THEN [s |-> s, ret |-> OBJMAP_ERR_OVERFLOW]
    ELSE LET key == s.top
             s1 == [s EXCEPT !.top = KeyT(s.top + 1)]
             put == kh_put(s1.map, key, reject)
         IN IF put.rc = 0
            THEN [s |-> [s1 EXCEPT !.map = kh_del(put.m, put.k)],
                  ret |-> OBJMAP_ERR_INTERNAL]
            ELSE [s |-> [s1 EXCEPT !.map = kh_set_value(put.m, put.k, obj)],
                  ret |-> key]

objmap_get(s, handle) ==
    LET k == kh_get(s.map, handle)
    IN IF k = kh_end THEN NULL ELSE kh_value(s.map, k)

\* variant: the lookup deletes the entry it finds, as objmap_pop does
objmap_get_call_del(s, handle) ==
    LET k == kh_get(s.map, handle)
    IN IF k = kh_end THEN [s |-> s, ret |-> NULL]
       ELSE [s |-> [s EXCEPT !.map = kh_del(s.map, k)], ret |-> kh_value(s.map, k)]

\* objmap_get as a call: the structure afterwards and the value returned
objmap_get_call(s, handle) ==
    LET k == kh_get(s.map, handle)
    IN IF k = kh_end THEN [s |-> s, ret |-> NULL]
       ELSE [s |-> s, ret |-> kh_value(s.map, k)]

\* variant: the entry is returned but not deleted
objmap_pop_nodel(s, handle) ==
    LET k == kh_get(s.map, handle)
    IN IF k = kh_end THEN [s |-> s, ret |-> NULL]
       ELSE [s |-> s, ret |-> kh_value(s.map, k)]

objmap_pop(s, handle) ==
    LET k == kh_get(s.map, handle)
    IN IF k = kh_end THEN [s |-> s, ret |-> NULL]
       ELSE [s |-> [s EXCEPT !.map = kh_del(s.map, k)], ret |-> kh_value(s.map, k)]

----------------------------------------------------------------------------
(* The calls a client makes (example/counter.c).  A call is one step.  The *)
(* history variables record what the caller was told: expect maps every    *)
(* handle a push returned, and that was not popped or released in bulk     *)
(* since, to the object pushed.                                            *)

NoHandles == [x \in {} |-> NULL]
Bind(f, k, v) == [x \in (DOMAIN f) \cup {k} |-> IF x = k THEN v ELSE f[x]]
Unbind(f, k) == [x \in (DOMAIN f) \ {k} |-> f[x]]

Init ==
    /\ om = OM
    /\ reg = objmap_new
    /\ heap = [o \in Objs |-> ByCaller]
    /\ halted = FALSE
    /\ last = [op |-> "new", h |-> 0, obj |-> NULL, ret |-> OM, top0 |-> 0,
               fault |-> FALSE]
    /\ expect = NoHandles
    /\ issued = {}
    /\ removed = {}
    /\ installed = NULL
    /\ overflowed = FALSE
    /\ value = [o \in Objs |-> Indeterminate]

\* counter_manager_init: objmap_new() when there is no map; malloc may fail
New(ok) ==
    /\ ~halted
    /\ om = NULL
    /\ om' = IF ok THEN OM ELSE NULL
    /\ reg' = IF ok THEN objmap_new ELSE reg
    /\ last' = Call("new", 0, NULL, om')
    /\ expect' = NoHandles
    /\ issued' = {}
    /\ removed' = {}
    /\ installed' = NULL
    /\ overflowed' = FALSE
    /\ UNCHANGED <<heap, halted>>
    /\ UNCHANGED cvars

\* objmap_set_deallocator(om, d); a write through NULL either ends the process
\* or goes unnoticed
SetDeallocator(d, dies) ==
    /\ ~halted
    /\ LET r == objmap_set_deallocator(om, reg, d)
       IN /\ reg' = r.s
          /\ halted' = (r.fault /\ dies)
          /\ last' = IF r.fault THEN Fault("set_deallocator")
                               ELSE Call("set_deallocator", 0, d, 0)
          /\ installed' = IF om # NULL THEN d ELSE installed
    /\ UNCHANGED <<om, heap, expect, issued, removed, overflowed>>
    /\ UNCHANGED cvars

\* objmap_push(om, obj): om and obj are not NULL (asserted), and obj is handed
\* over by the caller, so it is not an object the map already stores
Push(obj, reject) ==
    /\ ~halted
    /\ om # NULL
    /\ heap[obj].st # "stored"
    /\ LET r == objmap_push(reg, obj, reject)
           good == r.ret <= OBJMAP_MAX_INDEX
       IN /\ reg' = r.s
          /\ heap' = IF good THEN [heap EXCEPT ![obj] = Stored] ELSE heap
          /\ last' = Call("push", 0, obj, r.ret)
          /\ expect' = IF good THEN Bind(expect, r.ret, obj) ELSE expect
          /\ issued' = IF good THEN issued \cup {r.ret} ELSE issued
          /\ removed' = IF good THEN removed \ {r.ret} ELSE removed
          /\ overflowed' = (overflowed \/ r.ret = OBJMAP_ERR_OVERFLOW)
    /\ UNCHANGED <<om, halted, installed>>
    /\ UNCHANGED cvars

\* objmap_get(om, handle)
Get(handle) ==
    /\ ~halted
    /\ om # NULL
    /\ LET r == objmap_get_call(reg, handle)
       IN /\ reg' = r.s
          /\ last' = Call("get", handle, NULL, r.ret)
    /\ UNCHANGED <<om, heap, halted, expect, issued, removed, installed, overflowed>>
    /\ UNCHANGED cvars

\* objmap_pop(om, handle): the object returned belongs to the caller again
Pop(handle) ==
    /\ ~halted
    /\ om # NULL
    /\ LET r == objmap_pop(reg, handle)
       IN /\ reg' = r.s
          /\ heap' = IF r.ret # NULL THEN [heap EXCEPT ![r.ret] = ByCaller] ELSE heap
          /\ last' = Call("pop", handle, NULL, r.ret)
          /\ expect' = IF r.ret # NULL THEN Unbind(expect, handle) ELSE expect
          /\ removed' = IF r.ret # NULL THEN removed \cup {handle} ELSE removed
    /\ UNCHANGED <<om, halted, issued, installed, overflowed>>
    /\ UNCHANGED cvars

\* objmap_flush(om)
Flush ==
    /\ ~halted
    /\ LET r == objmap_flush(om, reg, heap)
       IN /\ reg' = r.s
          /\ heap' = r.heap
    /\ last' = Call("flush", 0, NULL, 0)
    /\ expect' = IF om # NULL THEN NoHandles ELSE expect
    /\ UNCHANGED <<om, halted, issued, removed, installed, overflowed>>
    /\ UNCHANGED cvars

\* objmap_reset(om)
Reset ==
    /\ ~halted
    /\ LET r == objmap_reset(om, reg, heap)
       IN /\ reg' = r.s
          /\ heap' = r.heap
    /\ last' = Call("reset", 0, NULL, 0)
    /\ expect' = IF om # NULL THEN NoHandles ELSE expect
    /\ issued' = IF om # NULL THEN {} ELSE issued
    /\ removed' = IF om # NULL THEN {} ELSE removed
    /\ overflowed' = IF om # NULL THEN FALSE ELSE overflowed
    /\ UNCHANGED <<om, halted, installed>>
    /\ UNCHANGED cvars

\* objmap_delete(&om); the read through a NULL om either ends the process or
\* goes unnoticed
Delete(dies) ==
    /\ ~halted
    /\ LET r == objmap_delete(om, reg, heap)
       IN /\ om' = r.p
          /\ reg' = r.s
          /\ heap' = r.heap
          /\ halted' = (r.fault /\ dies)
          /\ last' = IF r.fault THEN Fault("delete") ELSE Call("delete", 0, NULL, 0)
    /\ expect' = NoHandles
    /\ issued' = {}
    /\ removed' = {}
    /\ overflowed' = FALSE
    /\ UNCHANGED installed
    /\ UNCHANGED cvars

Next ==
    \/ \E ok \in BOOLEAN : New(ok)
    \/ \E d \in Fns \cup {NULL}, dies \in BOOLEAN : SetDeallocator(d, dies)
    \/ \E obj \in Objs, reject \in BOOLEAN : Push(obj, reject)
    \/ \E handle \in Keys : Get(handle)
    \/ \E handle \in Keys : Pop(handle)
    \/ Flush
    \/ Reset
    \/ \E dies \in BOOLEAN : Delete(dies)

Spec == Init /\ [][Next]_vars

----------------------------------------------------------------------------
(* example/counter.c: counters kept in one map private to the module.  A   *)
(* counter object is malloc'ed by counter_new and freed by counter_delete  *)
(* or by the map.  value[o] is the value field of the object at address o. *)
(* COUNTER_NULL is defined nowhere in the sources (counter.h defines       *)
(* OBJMAP_NULL as COUNTER_NULL, not the reverse), so it stands for         *)
(* whatever key value the build supplies: the input null of counter_delete.*)
(* The histories issued, removed, installed and overflowed belong to the   *)
(* calls of Spec and are left alone here; expect is kept.                  *)

counter_manager_init(p, s, ok) ==
    IF p # NULL THEN [p |-> p, s |-> s]
    ELSE IF ok THEN [p |-> OM, s |-> objmap_new]
    ELSE [p |-> NULL, s |-> s]

counter_manager_finalise(p, s, hp) ==
    IF p = NULL THEN [p |-> p, s |-> s, heap |-> hp, fault |-> FALSE]
    ELSE objmap_delete(p, s, hp)

counter_manager_delete_all(p, s, hp) ==
    IF p = NULL THEN [s |-> s, heap |-> hp]
    ELSE objmap_flush(p, s, hp)

\* variant: the new object's value is left as malloc returned it
counter_new_uninit(s, val, obj, reject) ==
    LET r == objmap_push(s, obj, reject)
    IN [s |-> r.s, value |-> val, ret |-> r.ret,
        abort |-> ~(r.ret <= OBJMAP_MAX_INDEX)]

\* obj is the address malloc returned; assert(c <= OBJMAP_MAX_INDEX) aborts
counter_new(s, val, obj, reject) ==
    LET val1 == [val EXCEPT ![obj] = 0]
        r == objmap_push(s, obj, reject)
    IN [s |-> r.s, value |-> val1, ret |-> r.ret,
        abort |-> ~(r.ret <= OBJMAP_MAX_INDEX)]

counter_reset(s, val, c) ==
    LET g == objmap_get_call(s, c)
    IN [s |-> g.s,
        value |-> IF g.ret # NULL THEN [val EXCEPT ![g.ret] = 0] ELSE val]

counter_increment(s, val, c) ==
    LET g == objmap_get_call(s, c)
    IN IF g.ret = NULL THEN [s |-> g.s, value |-> val, ret |-> 0]
       ELSE [s |-> g.s, value |-> [val EXCEPT ![g.ret] = val[g.ret] + 1],
             ret |-> val[g.ret] + 1]

counter_peek(s, val, c) ==
    LET g == objmap_get_call(s, c)
    IN IF g.ret = NULL THEN [s |-> g.s, value |-> val, ret |-> 0]
       ELSE [s |-> g.s, value |-> val, ret |-> val[g.ret]]

\* c is the handle in *c_ptr; the result's c is what *c_ptr holds afterwards
counter_delete(s, hp, c, null) ==
    LET r == objmap_pop(s, c)
    IN [s |-> r.s, c |-> null, obj |-> r.ret,
        heap |-> IF r.ret # NULL THEN [hp EXCEPT ![r.ret] = Released(NULL)] ELSE hp]

\* before counter_manager_init: static ObjectMap *map = NULL
CounterInit ==
    /\ om = NULL
    /\ reg = Unallocated
    /\ heap = [o \in Objs |-> ByCaller]
    /\ halted = FALSE
    /\ last = [op |-> "none", h |-> 0, obj |-> NULL, ret |-> 0, top0 |-> 0,
               fault |-> FALSE]
    /\ expect = NoHandles
    /\ issued = {}
    /\ removed = {}
    /\ installed = NULL
    /\ overflowed = FALSE
    /\ value = [o \in Objs |-> Indeterminate]

CounterManagerInit(ok) ==
    /\ ~halted
    /\ LET r == counter_manager_init(om, reg, ok)
       IN /\ om' = r.p
          /\ reg' = r.s
          /\ last' = Call("counter_manager_init", 0, NULL, r.p)
    /\ expect' = IF om = NULL THEN NoHandles ELSE expect
    /\ UNCHANGED <<heap, halted, issued, removed, installed, overflowed, value>>

CounterManagerFinalise ==
    /\ ~halted
    /\ LET r == counter_manager_finalise(om, reg, heap)
       IN /\ om' = r.p
          /\ reg' = r.s
          /\ heap' = r.heap
    /\ value' = Freed(value, heap')
    /\ last' = Call("counter_manager_finalise", 0, NULL, 0)
    /\ expect' = NoHandles
    /\ UNCHANGED <<halted, issued, removed, installed, overflowed>>

CounterManagerDeleteAll ==
    /\ ~halted
    /\ LET r == counter_manager_delete_all(om, reg, heap)
       IN /\ reg' = r.s
          /\ heap' = r.heap
    /\ value' = Freed(value, heap')
    /\ last' = Call("counter_manager_delete_all", 0, NULL, 0)
    /\ expect' = NoHandles
    /\ UNCHANGED <<om, halted, issued, removed, installed, overflowed>>

\* counter_new(): map is not NULL (asserted); malloc returns an address that
\* is not in use
CounterNew(obj, reject) ==
    /\ ~halted
    /\ om # NULL
    /\ heap[obj].st # "stored"
    /\ LET r == counter_new(reg, value, obj, reject)
       IN /\ reg' = r.s
          /\ value' = r.value
          /\ halted' = r.abort
          /\ heap' = IF r.abort THEN heap ELSE [heap EXCEPT ![obj] = Stored]
          /\ last' = Call("counter_new", 0, obj, r.ret)
          /\ expect' = IF r.abort THEN expect ELSE Bind(expect, r.ret, obj)
    /\ UNCHANGED <<om, issued, removed, installed, overflowed>>

CounterReset(c) ==
    /\ ~halted
    /\ om # NULL
    /\ LET r == counter_reset(reg, value, c)
       IN /\ reg' = r.s
          /\ value' = r.value
    /\ last' = Call("counter_reset", c, NULL, 0)
    /\ UNCHANGED <<om, heap, halted, expect, issued, removed, installed,
                   overflowed>>

\* counter_increment(c), for a counter below MaxVal
CounterIncrement(c) ==
    /\ ~halted
    /\ om # NULL
    /\ LET r == counter_increment(reg, value, c)
       IN /\ r.ret <= MaxVal
          /\ reg' = r.s
          /\ value' = r.value
          /\ last' = Call("counter_increment", c, NULL, r.ret)
    /\ UNCHANGED <<om, heap, halted, expect, issued, removed, installed,
                   overflowed>>

CounterPeek(c) ==
    /\ ~halted
    /\ om # NULL
    /\ LET r == counter_peek(reg, value, c)
       IN /\ reg' = r.s
          /\ value' = r.value
          /\ last' = Call("counter_peek", c, NULL, r.ret)
    /\ UNCHANGED <<om, heap, halted, expect, issued, removed, installed,
                   overflowed>>

\* counter_delete(&c): last.ret is the handle left in c
CounterDelete(c, null) ==
    /\ ~halted
    /\ om # NULL
    /\ LET r == counter_delete(reg, heap, c, null)
       IN /\ reg' = r.s
          /\ heap' = r.heap
          /\ last' = Call("counter_delete", c, r.obj, r.c)
          /\ value' = Freed(value, r.heap)
          /\ expect' = IF r.obj # NULL THEN Unbind(expect, c) ELSE expect
    /\ UNCHANGED <<om, halted, issued, removed, installed, overflowed>>

CounterNext ==
    \/ \E ok \in BOOLEAN : CounterManagerInit(ok)
    \/ CounterManagerFinalise
    \/ CounterManagerDeleteAll
    \/ \E obj \in Objs, reject \in BOOLEAN : CounterNew(obj, reject)
    \/ \E c \in Keys : CounterReset(c)
    \/ \E c \in Keys : CounterIncrement(c)
    \/ \E c \in Keys : CounterPeek(c)
    \/ \E c \in Keys, null \in Keys : CounterDelete(c, null)

CounterSpec == CounterInit /\ [][CounterNext]_vars

----------------------------------------------------------------------------
(* Properties *)

Range(f) == {f[x] : x \in DOMAIN f}
GoodPush(c) == c.op = "push" /\ c.ret <= OBJMAP_MAX_INDEX
BulkOps == {"flush", "reset", "delete"}

\* C1: between two resets (issued, removed and expect restart at new and reset)
\* every handle a successful push returns is larger than every handle returned
\* by an earlier successful push, so the handles are pairwise distinct and
\* increase in issuance order, and a handle that was popped or flushed is not
\* returned again.
C1_HandlesIncrease ==
    [][GoodPush(last') =>
         /\ \A h \in issued \cup removed \cup DOMAIN expect : h < last'.ret
         /\ last'.ret \notin issued]_vars

\* a successful push after an earlier handle was popped and another was issued
C1_Witness ==
    /\ GoodPush(last)
    /\ removed # {}
    /\ Cardinality(issued) >= 3

\* C2: every handle h a push returned for object o, and that was not popped,
\* flushed, reset away or destroyed since, is looked up by get as o, whatever
\* was pushed, looked up or popped in between.
C2_GetReturnsPushed ==
    /\ om # NULL => \A h \in DOMAIN expect : objmap_get(reg, h) = expect[h]
    /\ (last.op = "get" /\ last.h \in DOMAIN expect) => last.ret = expect[last.h]

\* a get of a live handle, with another handle live and one popped before
C2_Witness ==
    /\ last.op = "get"
    /\ last.h \in DOMAIN expect
    /\ last.ret = expect[last.h]
    /\ Cardinality(DOMAIN expect) >= 2
    /\ removed # {}

\* C3: a pop that returns an object returns the one stored under the handle
\* and deletes the entry: a get or pop of the handle right after finds nothing,
\* and top and every other entry are as before.
C3_PopRemoves ==
    [][(last'.op = "pop" /\ last'.ret # NULL) =>
         LET h == last'.h
         IN /\ kh_exist(reg.map, h)
            /\ last'.ret = reg.map[h]
            /\ last'.ret = expect[h]
            /\ objmap_get(reg', h) = NULL
            /\ objmap_pop(reg', h).ret = NULL
            /\ reg'.top = reg.top
            /\ reg'.deallocator = reg.deallocator
            /\ DOMAIN reg'.map = (DOMAIN reg.map) \ {h}
            /\ \A k \in DOMAIN reg'.map : reg'.map[k] = reg.map[k]]_vars

\* a pop that returned an object while another entry stays in the map
C3_Witness ==
    /\ last.op = "pop"
    /\ last.ret # NULL
    /\ DOMAIN reg.map # {}

\* C4: get finds nothing for handle 0, for any handle on a registry just
\* created, for a handle not issued since the registry was created or reset
\* (the error values above OBJMAP_MAX_INDEX among them), and for a handle that
\* was popped since.
NotLive(h) ==
    \/ h = OBJMAP_NULL
    \/ h > OBJMAP_MAX_INDEX
    \/ h \notin issued
    \/ h \in removed
C4_GetNotFound ==
    /\ om # NULL => \A h \in Keys : NotLive(h) => objmap_get(reg, h) = NULL
    /\ (om # NULL /\ last.op = "new") => \A h \in Keys : objmap_get(reg, h) = NULL
    /\ (last.op = "get" /\ NotLive(last.h)) => last.ret = NULL

\* a get of a popped handle that found nothing, while another handle is live
C4_Witness ==
    /\ last.op = "get"
    /\ last.h \in removed
    /\ last.ret = NULL
    /\ DOMAIN expect # {}

\* C5: a push made when top is above OBJMAP_MAX_INDEX returns
\* OBJMAP_ERR_OVERFLOW and changes neither top nor any entry, and the object
\* offered is not stored.
C5_OverflowUnchanged ==
    [][(last'.op = "push" /\ reg.top > OBJMAP_MAX_INDEX) =>
         /\ last'.ret = OBJMAP_ERR_OVERFLOW
         /\ reg' = reg
         /\ heap' = heap
         /\ last'.obj \notin Range(reg'.map)]_vars

\* a push that returned the overflow value on a map that holds an entry
C5_Witness ==
    /\ last.op = "push"
    /\ last.ret = OBJMAP_ERR_OVERFLOW
    /\ last.top0 > OBJMAP_MAX_INDEX
    /\ DOMAIN reg.map # {}

\* C6: every key in the map is in 1..OBJMAP_MAX_INDEX; a push returns either
\* a handle in that range under which the object is now stored, or one of the
\* two error values, both above OBJMAP_MAX_INDEX, with the object not stored;
\* 0 and the two error values are never issued.
C6_HandleRange ==
    /\ \A k \in DOMAIN reg.map : 1 <= k /\ k <= OBJMAP_MAX_INDEX
    /\ \A h \in issued \cup DOMAIN expect : 1 <= h /\ h <= OBJMAP_MAX_INDEX
    /\ OBJMAP_ERR_OVERFLOW > OBJMAP_MAX_INDEX
    /\ OBJMAP_ERR_INTERNAL > OBJMAP_MAX_INDEX
    /\ last.op = "push" =>
         \/ /\ 1 <= last.ret /\ last.ret <= OBJMAP_MAX_INDEX
            /\ kh_exist(reg.map, last.ret)
            /\ reg.map[last.ret] = last.obj
         \/ /\ last.ret \in {OBJMAP_ERR_OVERFLOW, OBJMAP_ERR_INTERNAL}
            /\ last.obj \notin Range(reg.map)
            /\ heap[last.obj].st # "stored"

\* a push that returned the largest real handle
C6_Witness ==
    /\ last.op = "push"
    /\ last.ret = OBJMAP_MAX_INDEX
    /\ kh_exist(reg.map, OBJMAP_MAX_INDEX)

\* C7: a flush empties the map, so that get finds nothing for the handles that
\* were live, and leaves top alone: a push right after returns the overflow
\* value or a handle larger than every handle issued before.
C7_FlushKeepsTop ==
    [][(last'.op = "flush" /\ om # NULL) =>
         /\ DOMAIN reg'.map = {}
         /\ \A h \in DOMAIN expect : objmap_get(reg', h) = NULL
         /\ reg'.top = reg.top
         /\ \A o \in Objs :
              LET r == objmap_push(reg', o, FALSE).ret
              IN \/ r = OBJMAP_ERR_OVERFLOW
                 \/ r <= OBJMAP_MAX_INDEX /\ \A h \in issued \cup DOMAIN expect : h < r]_vars

\* the state after a flush that released an object, with room for another push
C7_Witness ==
    /\ last.op = "flush"
    /\ om # NULL
    /\ issued # {}
    /\ \E o \in Objs : heap[o].st = "released"
    /\ reg.top <= OBJMAP_MAX_INDEX

\* C8: after a reset the map is empty and top is 1, also when the keys had run
\* out, and a push right after returns handle 1.
C8_ResetRestarts ==
    (last.op = "reset" /\ om # NULL) =>
        /\ DOMAIN reg.map = {}
        /\ reg.top = 1
        /\ \A o \in Objs : objmap_push(reg, o, FALSE).ret = 1

\* the state after a reset made when the keys had run out
C8_Witness ==
    /\ last.op = "reset"
    /\ om # NULL
    /\ last.top0 > OBJMAP_MAX_INDEX
    /\ \E o \in Objs : heap[o].st = "released"

\* C9: objmap_delete on a pointer that is already NULL does nothing: it does
\* not go through the NULL pointer, does not end the process and releases
\* nothing.
C9_DeleteNullNoop ==
    [][(last'.op = "delete" /\ om = NULL) =>
         /\ ~last'.fault
         /\ ~halted'
         /\ om' = NULL
         /\ reg' = reg
         /\ heap' = heap]_vars

\* C10: once objmap_set_deallocator(om, fn) was called on a valid registry,
\* every object a flush, reset or delete releases is released by fn, and by
\* free() when fn is NULL.
C10_DeallocatorUsed ==
    [][(last'.op \in BulkOps /\ om # NULL) =>
         \A o \in Objs : heap[o].st = "stored" => heap'[o] = Released(installed)]_vars

\* C11: objmap_delete on a live registry releases every object still stored,
\* each once, leaves the objects the map does not hold as they are, frees the
\* table and the structure, and sets the caller's pointer to NULL.
C11_DeleteReleasesAll ==
    [][(last'.op = "delete" /\ om # NULL) =>
         /\ om' = NULL
         /\ reg' = Unallocated
         /\ ~last'.fault
         /\ \A o \in Objs :
              IF o \in Range(reg.map) \/ heap[o].st = "stored"
              THEN heap'[o].st = "released"
              ELSE heap'[o] = heap[o]]_vars

\* the state after the delete of a registry that handles were issued from,
\* with every object released
C11_Witness ==
    /\ last.op = "delete"
    /\ ~last.fault
    /\ om = NULL
    /\ last.top0 >= 3
    /\ \A o \in Objs : heap[o].st = "released"

\* C12: a pop of a handle that is not live (0, not issued, already popped or
\* flushed) returns NULL and changes nothing: top, the entries and the
\* deallocator are as before, and no object changes hands.
C12_PopMissUnchanged ==
    [][(last'.op = "pop" /\ last'.h \notin DOMAIN expect) =>
         /\ last'.ret = NULL
         /\ reg' = reg
         /\ heap' = heap
         /\ om' = om]_vars

\* a pop of an already popped handle that found nothing, another handle live
C12_Witness ==
    /\ last.op = "pop"
    /\ last.h \in removed
    /\ last.ret = NULL
    /\ DOMAIN expect # {}

\* C13: a get, of a live handle or not, changes neither top nor the entries
\* nor the deallocator and releases nothing, so the same get made again
\* returns the same.
C13_GetIsPure ==
    [][last'.op = "get" =>
         /\ reg' = reg
         /\ heap' = heap
         /\ om' = om
         /\ objmap_get_call(reg', last'.h).ret = last'.ret
         /\ objmap_get_call(reg', last'.h).s = reg]_vars

\* a get that found an object
C13_Witness ==
    /\ last.op = "get"
    /\ last.ret # NULL
    /\ kh_exist(reg.map, last.h)

\* C14: once a push returned OBJMAP_ERR_OVERFLOW every later push returns it
\* too, whatever gets, pops and flushes come between, until a reset; after a
\* reset the overflow is over and a push the table accepts returns a handle.
C14_OverflowSticks ==
    [][/\ (overflowed /\ last'.op = "push") => last'.ret = OBJMAP_ERR_OVERFLOW
       /\ (overflowed /\ last'.op \in {"get", "pop", "flush", "set_deallocator"})
             => overflowed'
       /\ (last'.op = "reset" /\ om # NULL) =>
             /\ ~overflowed'
             /\ \A o \in Objs : objmap_push(reg', o, FALSE).ret <= OBJMAP_MAX_INDEX]_vars

\* a push that overflowed on a map emptied after the keys ran out
C14_Witness ==
    /\ overflowed
    /\ last.op = "push"
    /\ last.ret = OBJMAP_ERR_OVERFLOW
    /\ DOMAIN reg.map = {}
    /\ \E o \in Objs : heap[o].st = "released"

\* C15: an object is released only by a flush, reset or delete, only while
\* the map stores it, and once: a pop releases nothing, and an object a pop
\* handed back is not released by a later flush, reset or delete.
C15_ReleaseOnceInBulk ==
    [][\A o \in Objs :
         (heap'[o] # heap[o] /\ heap'[o].st \in {"released", "released_again"}) =>
            /\ last'.op \in BulkOps
            /\ heap[o].st = "stored"
            /\ heap'[o].st = "released"]_vars

\* the state after a flush that released one object and left alone another,
\* with a handle popped before
C15_Witness ==
    /\ last.op = "flush"
    /\ removed # {}
    /\ \E o \in Objs : heap[o].st = "released"
    /\ \E o \in Objs : heap[o].st = "caller"

C17_TopMonotone ==
    [][/\ (last'.op = "new" /\ om' # NULL) => reg'.top = 1
       /\ (last'.op = "push") => reg'.top \in {reg.top, reg.top + 1}
       /\ (last'.op \in {"get", "pop", "flush", "set_deallocator"} /\ om # NULL)
             => reg'.top = reg.top
       /\ (om # NULL /\ om' # NULL /\ last'.op # "reset") => reg'.top >= reg.top]_vars

\* the state after a flush made when top had reached its largest value
C17_Witness ==
    /\ last.op = "flush"
    /\ om # NULL
    /\ reg.top = OBJMAP_MAX_INDEX + 1

\* C20: after every call 1 <= top <= OBJMAP_MAX_INDEX + 1 and every key in
\* the map is at least 1 and below top, so the key a push takes is not in the
\* map and a push neither overwrites nor deletes an entry.
TopBounds(s) ==
    /\ 1 <= s.top /\ s.top <= OBJMAP_MAX_INDEX + 1
    /\ \A k \in DOMAIN s.map : 1 <= k /\ k < s.top
C20_KeysBelowTop ==
    /\ (om # NULL => TopBounds(reg))
    /\ [][/\ om' # NULL => TopBounds(reg')
          /\ last'.op = "push" =>
                /\ ~kh_exist(reg.map, reg.top)
                /\ \A k \in DOMAIN reg.map :
                      kh_exist(reg'.map, k) /\ reg'.map[k] = reg.map[k]]_vars

\* a push that took key 1 again after a reset or a new registry
C20_Witness ==
    /\ last.op = "push"
    /\ last.ret = 1
    /\ last.top0 = 1
    /\ \E o \in Objs : heap[o].st = "released"

\* what counter_peek returns for handle c with the structure s and the values val
Peek(s, val, c) == counter_peek(s, val, c).ret

\* C18: on a map just created the first two counters get the handles 1 and 2
\* and a new counter reads 0; counter_increment and counter_reset on a handle
\* change the value read through that handle only (to one more, and to 0),
\* and the value read through every other live handle is as before.
C18_CounterIsolation ==
    [][/\ (last'.op = "counter_manager_init" /\ om = NULL /\ om' # NULL) =>
             reg'.top = 1 /\ DOMAIN reg'.map = {}
       /\ (last'.op = "counter_new" /\ ~halted') =>
             /\ reg.top \in {1, 2} => last'.ret = reg.top
             /\ last'.ret \notin DOMAIN expect
             /\ Peek(reg', value', last'.ret) = 0
             /\ \A h \in DOMAIN expect : Peek(reg', value', h) = Peek(reg, value, h)
       /\ last'.op \in {"counter_increment", "counter_reset"} =>
             \A h \in (DOMAIN expect) \ {last'.h} :
                 Peek(reg', value', h) = Peek(reg, value, h)
       /\ (last'.op = "counter_increment" /\ last'.h \in DOMAIN expect) =>
             /\ Peek(reg', value', last'.h) = Peek(reg, value, last'.h) + 1
             /\ last'.ret = Peek(reg', value', last'.h)
       /\ (last'.op = "counter_reset" /\ last'.h \in DOMAIN expect) =>
             Peek(reg', value', last'.h) = 0]_vars

\* counters 1 and 2 live, counter 1 just incremented to 1, counter 2 still 0
C18_Witness ==
    /\ last.op = "counter_increment"
    /\ last.h = 1
    /\ last.ret = 1
    /\ DOMAIN expect = {1, 2}
    /\ Peek(reg, value, 1) = 1
    /\ Peek(reg, value, 2) = 0

\* a call with a handle that is not live (null, not issued, deleted, or
\* flushed by counter_manager_delete_all): counter_increment and counter_peek
\* return 0, and no call changes a counter or the map
C19_NotLive ==
    (/\ last'.op \in {"counter_increment", "counter_peek", "counter_reset",
                       "counter_delete"}
     /\ last'.h \notin DOMAIN expect) =>
        /\ last'.op \in {"counter_increment", "counter_peek"} => last'.ret = 0
        /\ value' = value
        /\ reg' = reg
        /\ heap' = heap

\* counter_delete of a live handle takes the counter out of the map
C19_DeleteRemoves ==
    (last'.op = "counter_delete" /\ last'.h \in DOMAIN expect) =>
        /\ ~kh_exist(reg'.map, last'.h)
        /\ reg'.top = reg.top
        /\ \A h \in (DOMAIN expect) \ {last'.h} :
              Peek(reg', value', h) = Peek(reg, value, h)

\* counter_delete leaves the null handle in the caller's variable
C19_DeleteNulls ==
    last'.op = "counter_delete" => last'.ret = OBJMAP_NULL

====
